---- MODULE Spec2Model ----
(***************************************************************************)
(* Chunked upload sessions of backend/app/main.py: start_session,          *)
(* upload_chunk and finalize over a JSON store (db.json, loaded and saved  *)
(* whole) and two directories of files (data/tmp, data/sessions).          *)
(*                                                                         *)
(* Strings that the code takes apart (file names, paths) are sequences of  *)
(* tokens: "." is the extension separator, "/" the path separator, "_" the *)
(* underscore, every other token a run of ordinary characters.  File       *)
(* contents are sequences of bytes.  The row's created_at is written once  *)
(* and never read; it is left out.                                         *)
(***************************************************************************)
EXTENDS Integers, Sequences, FiniteSets, TLC

VARIABLES
    fs,        \* the files on disk: path -> content (directories always exist)
    dbfile,    \* db.json: [exists, sessions]
    uuids,     \* how many values uuid4 has handed out
    resp,      \* the response being returned, NoRequest once it has been sent
    appended,  \* history: session id -> every payload appended to it, in order
    fin,       \* history: session id -> "never" finalize was asked for it,
               \*   it was its "last" request, or it was asked "earlier"
    inflight,  \* the requests being handled step by step: slot -> locals
    admitted   \* how many requests were taken into a slot

vars == <<fs, dbfile, uuids, resp, appended, fin, inflight, admitted>>

----------------------------------------------------------------------------
\* Bounds of the model.

MaxBytes    == 2     \* bytes appended, over all sessions
MaxRequests == 3     \* requests the concurrent server takes, together or in turn

Bytes == {0, 1}

\* The requests the server handles at the same time.
Slots == {1, 2}

\* Python's None, for a string, for an int and for a path.
NoneStr  == "<None>"
NoneInt  == -1
NonePath == <<>>

\* The payloads a client sends: one byte, several bytes.  (An empty body is
\* answered by the framework, which requires the body, before the handler.)
Chunks == {<<0>>, <<1>>, <<0, 1>>}

----------------------------------------------------------------------------
\* The directories and the store.

TMP_DIR  == <<"tmp", "/">>
SESS_DIR == <<"sessions", "/">>

\* uuid.uuid4().hex: a value no earlier call returned, the next of the pool.
UuidPool == <<"u1", "u2", "u3", "u4">>
\* (faulty variant: the same value every time)
UuidRepeating(n) == UuidPool[1]
uuid4(n) == UuidPool[n + 1]

\* _load_db: the sessions of db.json, none when the file is missing.
EmptySessions == [s \in {} |-> NoneStr]
_load_db(file) == IF ~file.exists THEN EmptySessions ELSE file.sessions

\* _save_db: db.json rewritten whole.
_save_db(db) == [exists |-> TRUE, sessions |-> db]

\* The status codes the handlers raise, and the one the framework answers
\* when a handler lets an OSError out.
HTTP_CONFLICT  == 409
HTTP_BAD_STATE == 400
HTTP_SERVER_ERROR == 500
\* (faulty variant: an unknown id answered as a bad state)
NotFoundAsBadState == HTTP_BAD_STATE
HTTP_NOT_FOUND == 404

\* db["sessions"].get(session_id) is None
no_row(db, session_id) == session_id \notin DOMAIN db

----------------------------------------------------------------------------
\* The file system calls the handlers make.

exists(fsys, p) == p \in DOMAIN fsys

\* Path.write_bytes: create or truncate, then write.
write_bytes(fsys, p, bytes) ==
    [q \in DOMAIN fsys \cup {p} |-> IF q = p THEN bytes ELSE fsys[q]]

\* open("ab") and write: create when missing, write at the end.
\* (faulty variant: mode "wb", which truncates)
WriteTruncating(fsys, p, data) == write_bytes(fsys, p, data)
open_ab_write(fsys, p, data) ==
    write_bytes(fsys, p, (IF exists(fsys, p) THEN fsys[p] ELSE <<>>) \o data)

\* Path.stat().st_size
\* (faulty variant: a size that is not read from the disk)
StaleSize(fsys, p) == 0
st_size(fsys, p) == Len(fsys[p])

\* shutil.move of a file onto a file path: a rename, replacing the destination.
\* (faulty variant: a copy, the source left in place)
MoveKeepingSource(fsys, src, dst) == write_bytes(fsys, dst, fsys[src])
move(fsys, src, dst) ==
    [q \in (DOMAIN fsys \ {src}) \cup {dst} |-> IF q = dst THEN fsys[src] ELSE fsys[q]]

\* os.path.splitext of a name without separators: split at the last dot,
\* unless only dots come before it.
LastDot(name) ==
    LET dots == {i \in 1 .. Len(name) : name[i] = "."}
    IN  IF dots = {} THEN 0 ELSE CHOOSE i \in dots : \A j \in dots : j <= i

splitext(name) ==
    LET d == LastDot(name)
    IN  IF d > 0 /\ \E i \in 1 .. d - 1 : name[i] # "."
        THEN <<SubSeq(name, 1, d - 1), SubSeq(name, d, Len(name))>>
        ELSE <<name, <<>>>>

----------------------------------------------------------------------------
\* What the handlers compute.

\* TMP_DIR / f"{session_id}.part"
tmp_file_of(session_id) == TMP_DIR \o <<session_id, ".", "part">>

\* The row start_session writes.
new_row(session_id, upload_id, req, tmp_file) ==
    [id             |-> session_id,
     upload_id      |-> upload_id,
     filename       |-> req.filename,
     size           |-> req.size,
     mime           |-> req.mime,
     status         |-> "uploading",
     tmp_path       |-> tmp_file,
     final_path     |-> NonePath,
     bytes_received |-> 0]

\* db["sessions"][session_id] = row
\* (faulty variant: the other rows dropped)
PutRowAlone(db, session_id, row) ==
    [s \in {session_id} |-> row]
put_row(db, session_id, row) ==
    [s \in DOMAIN db \cup {session_id} |-> IF s = session_id THEN row ELSE db[s]]

\* upload_id and upload_id != row["upload_id"]: None and "" are both falsy.
upload_id_mismatch(upload_id, row) ==
    /\ upload_id # NoneStr
    /\ upload_id # ""
    /\ upload_id # row.upload_id

\* row["filename"] or f"{session_id}.mp4"
final_name_of(row, session_id) ==
    IF row.filename # <<>> THEN row.filename ELSE <<session_id, ".", "mp4">>

\* The destination finalize picks: SESS_DIR / final_name, or, when that path
\* is taken, SESS_DIR / f"{stem}_{session_id}{ext}".
final_path_of(fsys, final_name, session_id) ==
    IF exists(fsys, SESS_DIR \o final_name)
    THEN LET se == splitext(final_name)
         IN  SESS_DIR \o se[1] \o <<"_", session_id>> \o se[2]
    ELSE SESS_DIR \o final_name

\* The row after finalize's three assignments.
\* (faulty variant: the status assignment forgotten)
RowLeftUploading(row, final_path, size) ==
    [row EXCEPT !.final_path = final_path, !.size = size]
finalized_row(row, final_path, size) ==
    [row EXCEPT !.final_path = final_path, !.status = "complete", !.size = size]

----------------------------------------------------------------------------
\* The requests clients send.

SessionIdsKnown == DOMAIN _load_db(dbfile)

\* Path parameters: the ids of the sessions, and one id nobody was given.
SessionIdArgs == SessionIdsKnown \cup {"nosuch"}

\* upload_id headers: absent, empty, a wrong token, the session's own token.
UploadIdArgs(session_id) ==
    {NoneStr, "", "bogus"}
    \cup {_load_db(dbfile)[s].upload_id : s \in SessionIdsKnown \cap {session_id}}

\* Start requests: no file name, a plain name, and names shaped like the
\* disambiguated name of a session already started.  All are names without
\* directory separators: a name with separators addresses a path outside
\* data/sessions, which this model does not cover.
StartReqs ==
    {[filename |-> <<>>, size |-> NoneInt, mime |-> NoneStr],
     [filename |-> <<"a", ".", "mp4">>, size |-> 7, mime |-> "video/mp4"]}
    \cup {[filename |-> <<"a", "_", s, ".", "mp4">>, size |-> NoneInt, mime |-> "video/mp4"]
             : s \in SessionIdsKnown}

Sum(f) ==
    LET RECURSIVE SumOver(_)
        SumOver(S) == IF S = {} THEN 0
                      ELSE LET x == CHOOSE y \in S : TRUE
                           IN  Len(f[x]) + SumOver(S \ {x})
    IN  SumOver(DOMAIN f)

\* Bytes that admitted uploads have still to write.
PendingBytes ==
    LET RECURSIVE Pending(_)
        Pending(S) == IF S = {} THEN 0
                      ELSE LET i == CHOOSE j \in S : TRUE
                           IN  (IF inflight[i].pc = "uc_write" THEN Len(inflight[i].data) ELSE 0)
                               + Pending(S \ {i})
    IN  Pending(Slots)

\* The history of a session after a request other than finalize.
after_other(f) == IF f = "never" THEN "never" ELSE "earlier"

NoRequest == [op |-> "none", code |-> 0]
Idle == [pc |-> "idle"]

----------------------------------------------------------------------------
\* The handlers, each run from its first line to its return with no other
\* request in between.

start_session(req) ==
    /\ resp = NoRequest
    /\ uuids + 2 <= Len(UuidPool)
    /\ LET session_id == uuid4(uuids)
           upload_id  == uuid4(uuids + 1)
           tmp_file   == tmp_file_of(session_id)
           db         == _load_db(dbfile)
       IN  /\ fs' = write_bytes(fs, tmp_file, <<>>)
           /\ dbfile' = _save_db(put_row(db, session_id,
                                         new_row(session_id, upload_id, req, tmp_file)))
           /\ resp' = [op |-> "start", code |-> 200, session_id |-> session_id,
                       upload_id |-> upload_id, tmp_path |-> tmp_file]
           /\ appended' = put_row(appended, session_id, <<>>)
           /\ fin' = put_row(fin, session_id, "never")
    /\ uuids' = uuids + 2
    /\ UNCHANGED <<inflight, admitted>>

upload_chunk(session_id, data, upload_id) ==
    /\ resp = NoRequest
    /\ LET db == _load_db(dbfile) IN
       IF no_row(db, session_id)
       THEN /\ resp' = [op |-> "upload_chunk", code |-> HTTP_NOT_FOUND]
            /\ UNCHANGED <<fs, dbfile, uuids, appended, fin, inflight, admitted>>
       ELSE IF upload_id_mismatch(upload_id, db[session_id])
       THEN /\ resp' = [op |-> "upload_chunk", code |-> HTTP_CONFLICT]
            /\ fin' = [fin EXCEPT ![session_id] = after_other(@)]
            /\ UNCHANGED <<fs, dbfile, uuids, appended, inflight, admitted>>
       ELSE LET row      == db[session_id]
                tmp_file == row.tmp_path
                fs1      == open_ab_write(fs, tmp_file, data)
                row1     == [row EXCEPT !.bytes_received = st_size(fs1, tmp_file)]
            IN  /\ Sum(appended) + Len(data) <= MaxBytes
                /\ fs' = fs1
                /\ dbfile' = _save_db(put_row(db, session_id, row1))
                /\ resp' = [op |-> "upload_chunk", code |-> 200, session_id |-> session_id,
                            bytes_received |-> row1.bytes_received]
                /\ appended' = [appended EXCEPT ![session_id] = @ \o data]
                /\ fin' = [fin EXCEPT ![session_id] = after_other(@)]
                /\ UNCHANGED <<uuids, inflight, admitted>>

finalize(session_id) ==
    /\ resp = NoRequest
    /\ LET db == _load_db(dbfile) IN
       IF no_row(db, session_id)
       THEN /\ resp' = [op |-> "finalize", code |-> HTTP_NOT_FOUND]
            /\ UNCHANGED <<fs, dbfile, uuids, appended, fin, inflight, admitted>>
       ELSE IF ~exists(fs, db[session_id].tmp_path)
       THEN /\ resp' = [op |-> "finalize", code |-> HTTP_BAD_STATE]
            /\ fin' = [fin EXCEPT ![session_id] = "last"]
            /\ UNCHANGED <<fs, dbfile, uuids, appended, inflight, admitted>>
       ELSE LET row        == db[session_id]
                tmp_file   == row.tmp_path
                final_path == final_path_of(fs, final_name_of(row, session_id), session_id)
                fs1        == move(fs, tmp_file, final_path)
                row1       == finalized_row(row, final_path, st_size(fs1, final_path))
            IN  /\ fs' = fs1
                /\ dbfile' = _save_db(put_row(db, session_id, row1))
                /\ resp' = [op |-> "finalize", code |-> 200, session_id |-> session_id,
                            final_path |-> final_path, size |-> row1.size]
                /\ fin' = [fin EXCEPT ![session_id] = "last"]
                /\ UNCHANGED <<uuids, appended, inflight, admitted>>

----------------------------------------------------------------------------
\* The state after the module is imported into an empty data directory.

Init ==
    /\ fs = [p \in {} |-> <<>>]
    /\ dbfile = [exists |-> FALSE, sessions |-> EmptySessions]
    /\ uuids = 0
    /\ resp = NoRequest
    /\ appended = [s \in {} |-> <<>>]
    /\ fin = [s \in {} |-> "never"]
    /\ inflight = [i \in Slots |-> Idle]
    /\ admitted = 0

StartStep    == \E req \in StartReqs : start_session(req)
UploadStep   == \E s \in SessionIdArgs, data \in Chunks :
                    \E u \in UploadIdArgs(s) : upload_chunk(s, data, u)
FinalizeStep == \E s \in SessionIdArgs : finalize(s)

\* The response leaves; the server is ready for the next request.
Reply ==
    /\ resp # NoRequest
    /\ resp' = NoRequest
    /\ UNCHANGED <<fs, dbfile, uuids, appended, fin, inflight, admitted>>

\* Requests handled one at a time.
Next == StartStep \/ UploadStep \/ FinalizeStep \/ Reply

Spec == Init /\ [][Next]_vars

----------------------------------------------------------------------------
\* The handlers run concurrently: each request takes a slot and goes through
\* its handler one access to the store or to the disk at a time.  A slot keeps
\* the handler's locals; db is the handler's own copy of the loaded store.

Free(i) == inflight[i].pc = "idle" /\ admitted < MaxRequests

\* (history) An append under way in another slot is no longer alone once this
\* slot takes a step.
Interleaved(l) ==
    IF l.pc \in {"uc_write", "uc_stat", "uc_save"} THEN [l EXCEPT !.alone = FALSE] ELSE l

Goto(i, locals) ==
    inflight' = [j \in Slots |-> IF j = i THEN locals ELSE Interleaved(inflight[j])]

Done(i, op, session_id, code) ==
    Goto(i, [pc |-> "done", op |-> op, session_id |-> session_id, code |-> code])

\* start_session, lines 65-69: the two ids, the empty temporary file.
ss_create(i, req) ==
    /\ Free(i)
    /\ uuids + 2 <= Len(UuidPool)
    /\ LET session_id == uuid4(uuids)
           tmp_file   == tmp_file_of(session_id)
       IN  /\ fs' = write_bytes(fs, tmp_file, <<>>)
           /\ Goto(i, [pc |-> "ss_load", op |-> "start", session_id |-> session_id,
                       upload_id |-> uuid4(uuids + 1), req |-> req, tmp_file |-> tmp_file])
           /\ appended' = put_row(appended, session_id, <<>>)
           /\ fin' = put_row(fin, session_id, "never")
    /\ uuids' = uuids + 2
    /\ admitted' = admitted + 1
    /\ UNCHANGED <<dbfile, resp>>

\* start_session, lines 72-84: the store is loaded, the row is put in the copy.
ss_load(i) ==
    /\ inflight[i].pc = "ss_load"
    /\ LET l == inflight[i]
       IN  Goto(i, [pc |-> "ss_save", op |-> "start", session_id |-> l.session_id,
                    db |-> put_row(_load_db(dbfile), l.session_id,
                                   new_row(l.session_id, l.upload_id, l.req, l.tmp_file))])
    /\ UNCHANGED <<fs, dbfile, uuids, resp, appended, fin, admitted>>

\* start_session, lines 85-87: the copy is saved and the response returned.
ss_save(i) ==
    /\ inflight[i].pc = "ss_save"
    /\ dbfile' = _save_db(inflight[i].db)
    /\ Done(i, "start", inflight[i].session_id, 200)
    /\ UNCHANGED <<fs, uuids, resp, appended, fin, admitted>>

\* upload_chunk, lines 97-104: the store is loaded, the row and the token checked.
uc_load(i, session_id, data, upload_id) ==
    /\ Free(i)
    /\ LET db == _load_db(dbfile) IN
       IF no_row(db, session_id)
       THEN /\ Done(i, "upload_chunk", session_id, HTTP_NOT_FOUND)
            /\ UNCHANGED fin
       ELSE IF upload_id_mismatch(upload_id, db[session_id])
       THEN /\ Done(i, "upload_chunk", session_id, HTTP_CONFLICT)
            /\ fin' = [fin EXCEPT ![session_id] = after_other(@)]
       ELSE /\ Sum(appended) + PendingBytes + Len(data) <= MaxBytes
            /\ Goto(i, [pc |-> "uc_write", op |-> "upload_chunk", session_id |-> session_id,
                        data |-> data, db |-> db, alone |-> TRUE])
            /\ fin' = [fin EXCEPT ![session_id] = after_other(@)]
    /\ admitted' = admitted + 1
    /\ UNCHANGED <<fs, dbfile, uuids, resp, appended>>

\* upload_chunk, lines 109-110: the chunk is written at the end of the file.
uc_write(i) ==
    /\ inflight[i].pc = "uc_write"
    /\ LET l == inflight[i]
       IN  /\ fs' = open_ab_write(fs, l.db[l.session_id].tmp_path, l.data)
           /\ appended' = [appended EXCEPT ![l.session_id] = @ \o l.data]
           /\ Goto(i, [pc |-> "uc_stat", op |-> "upload_chunk",
                       session_id |-> l.session_id, db |-> l.db, alone |-> l.alone])
    /\ UNCHANGED <<dbfile, uuids, resp, fin, admitted>>

\* upload_chunk, line 112: the size is read back into the copy's row; stat
\* fails when the file is no longer there.
uc_stat(i) ==
    /\ inflight[i].pc = "uc_stat"
    /\ LET l        == inflight[i]
           tmp_file == l.db[l.session_id].tmp_path
       IN  IF ~exists(fs, tmp_file)
           THEN Done(i, "upload_chunk", l.session_id, HTTP_SERVER_ERROR)
           ELSE Goto(i, [pc |-> "uc_save", op |-> "upload_chunk", session_id |-> l.session_id,
                         alone |-> l.alone,
                         db |-> [l.db EXCEPT ![l.session_id].bytes_received =
                                                 st_size(fs, tmp_file)]])
    /\ UNCHANGED <<fs, dbfile, uuids, resp, appended, fin, admitted>>

\* upload_chunk, lines 113-114: the copy is saved and the response returned.
uc_save(i) ==
    /\ inflight[i].pc = "uc_save"
    /\ dbfile' = _save_db(inflight[i].db)
    /\ Goto(i, [pc |-> "done", op |-> "upload_chunk", session_id |-> inflight[i].session_id,
                code |-> 200, alone |-> inflight[i].alone,
                bytes_received |-> inflight[i].db[inflight[i].session_id].bytes_received])
    /\ UNCHANGED <<fs, uuids, resp, appended, fin, admitted>>

\* A finalize of the session is under way in slot j.
Finalizing(j, session_id) ==
    /\ inflight[j].pc \in {"fz_check", "fz_pick", "fz_move", "fz_stat", "fz_save"}
    /\ inflight[j].session_id = session_id

\* A finalize that got past the row lookup ends: its response, and (history)
\* whether it ran while another finalize of the same session did.
FzDone(i, code) ==
    Goto(i, [pc |-> "done", op |-> "finalize", session_id |-> inflight[i].session_id,
             code |-> code, raced |-> inflight[i].raced])

\* finalize, lines 119-124: the store is loaded and the row looked up.
fz_load(i, session_id) ==
    /\ Free(i)
    /\ LET db == _load_db(dbfile) IN
       IF no_row(db, session_id)
       THEN /\ Done(i, "finalize", session_id, HTTP_NOT_FOUND)
            /\ UNCHANGED fin
       ELSE /\ inflight' =
                 [j \in Slots |->
                    IF j = i
                    THEN [pc |-> "fz_check", op |-> "finalize", session_id |-> session_id,
                          db |-> db,
                          raced |-> \E k \in Slots \ {i} : Finalizing(k, session_id)]
                    ELSE IF Finalizing(j, session_id)
                    THEN [inflight[j] EXCEPT !.raced = TRUE]
                    ELSE Interleaved(inflight[j])]
            /\ fin' = [fin EXCEPT ![session_id] = "last"]
    /\ admitted' = admitted + 1
    /\ UNCHANGED <<fs, dbfile, uuids, resp, appended>>

\* finalize, lines 125-126: the temporary file must exist.
fz_check(i) ==
    /\ inflight[i].pc = "fz_check"
    /\ LET l == inflight[i]
       IN  IF ~exists(fs, l.db[l.session_id].tmp_path)
           THEN FzDone(i, HTTP_BAD_STATE)
           ELSE Goto(i, [l EXCEPT !.pc = "fz_pick"])
    /\ UNCHANGED <<fs, dbfile, uuids, resp, appended, fin, admitted>>

\* finalize, lines 128-134: the destination is picked by looking at the disk.
fz_pick(i) ==
    /\ inflight[i].pc = "fz_pick"
    /\ LET l   == inflight[i]
           row == l.db[l.session_id]
       IN  Goto(i, [pc |-> "fz_move", op |-> "finalize", session_id |-> l.session_id,
                    db |-> l.db, raced |-> l.raced,
                    final_path |-> final_path_of(fs, final_name_of(row, l.session_id),
                                                 l.session_id)])
    /\ UNCHANGED <<fs, dbfile, uuids, resp, appended, fin, admitted>>

\* finalize, line 136: the file is moved; the move fails, the destination
\* untouched, when the source is no longer there.
fz_move(i) ==
    /\ inflight[i].pc = "fz_move"
    /\ LET l        == inflight[i]
           tmp_file == l.db[l.session_id].tmp_path
       IN  IF ~exists(fs, tmp_file)
           THEN /\ FzDone(i, HTTP_SERVER_ERROR)
                /\ UNCHANGED fs
           ELSE /\ fs' = move(fs, tmp_file, l.final_path)
                /\ Goto(i, [l EXCEPT !.pc = "fz_stat"])
    /\ UNCHANGED <<dbfile, uuids, resp, appended, fin, admitted>>

\* finalize, lines 138-140: the copy's row is completed with the moved file's size.
fz_stat(i) ==
    /\ inflight[i].pc = "fz_stat"
    /\ LET l == inflight[i]
       IN  IF ~exists(fs, l.final_path)
           THEN FzDone(i, HTTP_SERVER_ERROR)
           ELSE Goto(i, [pc |-> "fz_save", op |-> "finalize", session_id |-> l.session_id,
                         final_path |-> l.final_path, raced |-> l.raced,
                         db |-> [l.db EXCEPT ![l.session_id] =
                                    finalized_row(@, l.final_path, st_size(fs, l.final_path))]])
    /\ UNCHANGED <<fs, dbfile, uuids, resp, appended, fin, admitted>>

\* finalize, lines 141-143: the copy is saved and the response returned.
fz_save(i) ==
    /\ inflight[i].pc = "fz_save"
    /\ dbfile' = _save_db(inflight[i].db)
    /\ Goto(i, [pc |-> "done", op |-> "finalize", session_id |-> inflight[i].session_id,
                code |-> 200, final_path |-> inflight[i].final_path,
                size |-> inflight[i].db[inflight[i].session_id].size,
                raced |-> inflight[i].raced])
    /\ UNCHANGED <<fs, uuids, resp, appended, fin, admitted>>

\* The response leaves and the slot is free again.
Release(i) ==
    /\ inflight[i].pc = "done"
    /\ Goto(i, Idle)
    /\ UNCHANGED <<fs, dbfile, uuids, resp, appended, fin, admitted>>

StartSteps ==
    \E i \in Slots :
        \/ \E req \in StartReqs : ss_create(i, req)
        \/ ss_load(i)
        \/ ss_save(i)

UploadSteps ==
    \E i \in Slots :
        \/ \E s \in SessionIdArgs, data \in Chunks :
              \E u \in UploadIdArgs(s) : uc_load(i, s, data, u)
        \/ uc_write(i)
        \/ uc_stat(i)
        \/ uc_save(i)

FinalizeSteps ==
    \E i \in Slots :
        \/ \E s \in SessionIdArgs : fz_load(i, s)
        \/ fz_check(i)
        \/ fz_pick(i)
        \/ fz_move(i)
        \/ fz_stat(i)
        \/ fz_save(i)

NextConc == StartSteps \/ UploadSteps \/ FinalizeSteps \/ (\E i \in Slots : Release(i))

SpecConc == Init /\ [][NextConc]_vars

----------------------------------------------------------------------------
\* Properties of the handlers run one at a time (Spec).

Rows == _load_db(dbfile)
Rows_next == _load_db(dbfile')

IsFinal(p) == Len(p) > Len(SESS_DIR) /\ SubSeq(p, 1, Len(SESS_DIR)) = SESS_DIR

UploadOk   == resp.op = "upload_chunk" /\ resp.code = 200
FinalizeOk == resp.op = "finalize" /\ resp.code = 200

\* C1: while a session is uploading and no finalize was asked for it, its
\* temporary file holds the payloads appended to it, concatenated in the order
\* of the appends, and the stored and the returned bytes_received are the sum
\* of their lengths.
C1_AppendsConcatenate ==
    \A s \in DOMAIN Rows :
        (Rows[s].status = "uploading" /\ fin[s] = "never") =>
            /\ exists(fs, Rows[s].tmp_path)
            /\ fs[Rows[s].tmp_path] = appended[s]
            /\ Rows[s].bytes_received = Len(appended[s])
            /\ (UploadOk /\ resp.session_id = s) => resp.bytes_received = Len(appended[s])

\* Two one-byte chunks were appended, 1 then 0, and the second append answers.
C1_Witness ==
    /\ UploadOk
    /\ Rows[resp.session_id].status = "uploading"
    /\ fin[resp.session_id] = "never"
    /\ appended[resp.session_id] = <<1, 0>>

\* C2: the first finalize of a session succeeds; it returns the number of
\* bytes appended, the file at the returned path holds them in order, the
\* temporary file is gone, and the row is complete with that path and size.
C2_FirstFinalize ==
    [][\A s \in DOMAIN Rows :
          (finalize(s) /\ fin[s] = "never") =>
              /\ resp'.code = 200
              /\ resp'.size = Len(appended[s])
              /\ exists(fs', resp'.final_path)
              /\ fs'[resp'.final_path] = appended[s]
              /\ ~exists(fs', Rows[s].tmp_path)
              /\ Rows_next[s].status = "complete"
              /\ Rows_next[s].final_path = resp'.final_path
              /\ Rows_next[s].size = Len(fs'[resp'.final_path])]_vars

\* A finalize has just returned two bytes appended as 1 then 0, and another
\* session was finalized with nothing appended, leaving an empty file.
C2_Witness ==
    /\ FinalizeOk
    /\ resp.size = 2
    /\ fs[resp.final_path] = <<1, 0>>
    /\ \E t \in DOMAIN Rows :
          /\ t # resp.session_id
          /\ Rows[t].status = "complete"
          /\ appended[t] = <<>>
          /\ fs[Rows[t].final_path] = <<>>

\* C3: start_session adds exactly one row, under an id no row had; the row is
\* uploading with no bytes and no final path; its temporary file exists and is
\* empty; the response names the row's id, token and temporary path.
C3_StartAddsFreshSession ==
    [][\A req \in StartReqs :
          start_session(req) =>
              \E sid \in DOMAIN Rows_next \ DOMAIN Rows :
                  /\ DOMAIN Rows_next = DOMAIN Rows \cup {sid}
                  /\ \A t \in DOMAIN Rows : Rows_next[t] = Rows[t]
                  /\ Rows_next[sid].id = sid
                  /\ Rows_next[sid].status = "uploading"
                  /\ Rows_next[sid].bytes_received = 0
                  /\ Rows_next[sid].final_path = NonePath
                  /\ exists(fs', Rows_next[sid].tmp_path)
                  /\ fs'[Rows_next[sid].tmp_path] = <<>>
                  /\ resp'.code = 200
                  /\ resp'.session_id = sid
                  /\ resp'.upload_id = Rows_next[sid].upload_id
                  /\ resp'.tmp_path = Rows_next[sid].tmp_path]_vars

\* A second session has just been started beside a first one whose temporary
\* file already holds bytes.
C3_Witness ==
    /\ resp.op = "start"
    /\ Cardinality(DOMAIN Rows) = 2
    /\ \E t \in DOMAIN Rows : t # resp.session_id /\ Rows[t].bytes_received > 0

\* C4 (as claimed): an append with a supplied upload_id that differs from the
\* stored one is answered 409 and changes neither the files nor the store.
C4_SuppliedMismatchConflicts ==
    [][\A s \in DOMAIN Rows, data \in Chunks :
          \A u \in UploadIdArgs(s) :
              (upload_chunk(s, data, u) /\ u # NoneStr /\ u # Rows[s].upload_id) =>
                  /\ resp'.code = HTTP_CONFLICT
                  /\ UNCHANGED <<fs, dbfile>>]_vars

\* C5 (as claimed): an append to an existing session is answered 409 exactly
\* when an upload_id was supplied, empty or not, that differs from the stored
\* one; otherwise the chunk is appended and the answer is 200.
C5_PresenceGated ==
    [][\A s \in DOMAIN Rows, data \in Chunks :
          \A u \in UploadIdArgs(s) :
              upload_chunk(s, data, u) =>
                  IF u # NoneStr /\ u # Rows[s].upload_id
                  THEN resp'.code = HTTP_CONFLICT
                  ELSE /\ resp'.code = 200
                       /\ appended'[s] = appended[s] \o data]_vars

\* C6: upload_chunk and finalize on an id that has no row answer 404, whatever
\* the token and the bytes, and change neither the files nor the store.
C6_UnknownSessionNotFound ==
    [][\A s \in SessionIdArgs \ DOMAIN Rows :
          /\ \A data \in Chunks : \A u \in UploadIdArgs(s) :
                upload_chunk(s, data, u) =>
                    (resp'.code = 404 /\ UNCHANGED <<fs, dbfile>>)
          /\ finalize(s) => (resp'.code = 404 /\ UNCHANGED <<fs, dbfile>>)]_vars

\* An append to an unknown id was answered 404 while the store holds a
\* session with bytes in its temporary file.
C6_Witness ==
    /\ resp.op = "upload_chunk"
    /\ resp.code = 404
    /\ \E t \in DOMAIN Rows : exists(fs, Rows[t].tmp_path) /\ fs[Rows[t].tmp_path] # <<>>

C8_NeverOverwrites ==
    [][\A s \in DOMAIN Rows :
          (finalize(s) /\ resp'.code = 200) =>
              /\ ~exists(fs, resp'.final_path)
              /\ \A p \in DOMAIN fs :
                    IsFinal(p) => (exists(fs', p) /\ fs'[p] = fs[p])]_vars

\* C9 (as claimed): in every behaviour, interleaved requests included, a
\* session whose stored status is complete is stored complete in the next state.
C9_CompleteStaysComplete ==
    [][\A s \in DOMAIN Rows :
          Rows[s].status = "complete" =>
              (s \in DOMAIN Rows_next /\ Rows_next[s].status = "complete")]_vars

----------------------------------------------------------------------------
\* Properties of the handlers run concurrently (SpecConc).

Answered(i, op) == inflight[i].pc = "done" /\ inflight[i].op = op

\* Two finalizes of one session that ran at the same time have both answered.
BothFinalized(i, j) ==
    /\ i # j
    /\ Answered(i, "finalize") /\ Answered(j, "finalize")
    /\ inflight[i].session_id = inflight[j].session_id
    /\ inflight[i].code # HTTP_NOT_FOUND /\ inflight[j].code # HTTP_NOT_FOUND
    /\ inflight[i].raced /\ inflight[j].raced

\* C11 (as claimed): of two finalizes of one session run at the same time,
\* exactly one is answered 200 and the other is answered 400.
C11_OneFinalizeWinsOtherBadState ==
    \A i, j \in Slots :
        BothFinalized(i, j) =>
            {inflight[i].code, inflight[j].code} = {200, HTTP_BAD_STATE}

\* C12 (as claimed): a row that is in the store is in the store in the next
\* state, whatever requests interleave, and no request for a session whose
\* start has answered is answered 404.
C12_RowsAreNeverLost ==
    [][/\ \A s \in DOMAIN Rows : s \in DOMAIN Rows_next
       /\ \A i \in Slots :
             (inflight'[i].pc = "done" /\ inflight'[i].code = HTTP_NOT_FOUND) =>
                 inflight'[i].session_id \notin DOMAIN Rows]_vars

\* An upload of the session has been taken in and has not answered yet.
Uploading(i, s) ==
    /\ inflight[i].pc \in {"uc_write", "uc_stat", "uc_save"}
    /\ inflight[i].session_id = s

\* C13: for a session never finalized, once no append to it is under way,
\* its temporary file is the concatenation of whole chunks, as long as the
\* chunks together, and the stored bytes_received is at most that length.
C13_AppendsSafeStoreMayLag ==
    \A s \in DOMAIN appended :
        (fin[s] = "never" /\ \A i \in Slots : ~Uploading(i, s)) =>
            /\ exists(fs, tmp_file_of(s))
            /\ fs[tmp_file_of(s)] = appended[s]
            /\ s \in DOMAIN Rows =>
                  /\ Rows[s].tmp_path = tmp_file_of(s)
                  /\ Rows[s].bytes_received <= Len(fs[tmp_file_of(s)])

\* Two appends to one session ran together and both answered 200; the file
\* holds both chunks and the store counts only one.
C13_Witness ==
    \E s \in DOMAIN Rows :
        /\ \A i \in Slots :
              /\ Answered(i, "upload_chunk")
              /\ inflight[i].code = 200
              /\ inflight[i].session_id = s
        /\ Len(fs[Rows[s].tmp_path]) = 2
        /\ Rows[s].bytes_received = 1

\* C17: in every state of the store, interleavings included, a row has a
\* final path exactly when its status is complete.
C17_FinalPathIffComplete ==
    \A s \in DOMAIN Rows :
        (Rows[s].final_path # NonePath) <=> (Rows[s].status = "complete")

\* A finalize has answered 200 and no request is under way, yet a stale save
\* has put the row back: uploading, no final path, its file moved away.
C17_Witness ==
    /\ \A i \in Slots : inflight[i].pc \in {"idle", "done"}
    /\ \E i \in Slots :
          /\ Answered(i, "finalize")
          /\ inflight[i].code = 200
          /\ inflight[i].session_id \in DOMAIN Rows
          /\ Rows[inflight[i].session_id].status = "uploading"
          /\ Rows[inflight[i].session_id].final_path = NonePath
          /\ exists(fs, inflight[i].final_path)

\* The append in slot i has run every step so far with no step of another
\* request in between.
RunsAlone(i) ==
    /\ inflight[i].pc \in {"uc_write", "uc_stat", "uc_save"}
    /\ inflight[i].alone

\* C14: whatever bytes_received the store holds, an append that runs to its
\* return with no step of another request in between is answered 200 and
\* leaves the stored bytes_received equal to the size of the temporary file.
C14_WholeAppendHeals ==
    [][\A i \in Slots :
          (RunsAlone(i) /\ inflight'[i].pc = "done") =>
              LET s == inflight[i].session_id
              IN  /\ inflight'[i].code = 200
                  /\ s \in DOMAIN Rows_next
                  /\ exists(fs', Rows_next[s].tmp_path)
                  /\ Rows_next[s].bytes_received = Len(fs'[Rows_next[s].tmp_path])
                  /\ inflight'[i].bytes_received = Rows_next[s].bytes_received]_vars

\* Another append wrote its byte and was held up before reading the size, so
\* the store said 0 for a file 1 long; an append then ran alone and was
\* answered 2, and the store says 2 for the file 2 long.
C14_Witness ==
    \E i \in Slots :
        /\ Answered(i, "upload_chunk")
        /\ inflight[i].code = 200
        /\ inflight[i].alone
        /\ inflight[i].bytes_received = 2
        /\ Rows[inflight[i].session_id].bytes_received = 2
        /\ Len(fs[Rows[inflight[i].session_id].tmp_path]) = 2
        /\ \E j \in Slots :
              /\ inflight[j].pc = "uc_stat"
              /\ inflight[j].session_id = inflight[i].session_id
              /\ inflight[j].db[inflight[i].session_id].bytes_received = 0

----------------------------------------------------------------------------
\* Further properties of the handlers run one at a time (Spec).

\* C15 (as claimed): a session's temporary file exists exactly when the
\* session's status is uploading.
C15_TempFileIffUploading ==
    \A s \in DOMAIN Rows :
        exists(fs, Rows[s].tmp_path) <=> (Rows[s].status = "uploading")

IsTemp(p) == Len(p) > Len(TMP_DIR) /\ SubSeq(p, 1, Len(TMP_DIR)) = TMP_DIR

\* Path p is the same on disk before and after the step.
SameOnDisk(p) ==
    /\ exists(fs, p) <=> exists(fs', p)
    /\ exists(fs, p) => fs'[p] = fs[p]

====
